---- MODULE Spec2Model ----
(***************************************************************************)
(* The SoftLayer API client of SoftLayer/API.py: the Client object (its    *)
(* default headers and credentials), the Service proxy that builds the     *)
(* per-call header set, and the XML-RPC call handed to the transport.      *)
(***************************************************************************)
EXTENDS Integers, Sequences, FiniteSets, TLC

VARIABLES
    service_name,   \* Client._service_name
    username,       \* Client.username
    api_key,        \* Client.api_key
    headers,        \* Client._headers, a mapping header name -> body
    caller_headers, \* a mapping owned by the calling program (headers=...)
    req,            \* the last call as the caller made it
    wire,           \* what the transport was handed for it (None: nothing)
    raised,         \* the error the last operation raised (None: none)
    server,         \* the remote method's data and whether it returns a list
    iter,           \* the iter_call generator: its arguments, locals, log
    outcome,        \* the last call's transport sends, reply and result
    auth            \* Client.auth: the login token in force (None: none)

clientVars == <<service_name, username, api_key, headers>>
callVars == <<caller_headers, req, wire, raised>>
iterVars == <<server, iter>>
sessionVars == <<outcome, auth>>
vars == <<service_name, username, api_key, headers, caller_headers, req,
          wire, raised, server, iter, outcome, auth>>

(* --------------------------- Python values --------------------------- *)

\* An optional value: Python's None is the empty set, a value v is {v}.
None == {}
Some(v) == {v}
Val(o) == CHOOSE v \in o : TRUE

\* dict operations: d[k] = v, del d[k], {}
EmptyDict == << >>
Put(d, k, v) == [x \in (DOMAIN d) \cup {k} |-> IF x = k THEN v ELSE d[x]]
Del(d, k) == [x \in (DOMAIN d) \ {k} |-> d[x]]

\* The words the model's strings are made of, and str.strip() on them: a
\* string is either a word or a word written with surrounding blanks.
Words == {"", "authenticate", "X-Custom", "doesnotexist", "issurelywrong",
          "other", "otherkey"}
Pad(w) == " " \o w \o " "
Strip(s) == IF \E w \in Words : s = Pad(w)
            THEN CHOOSE w \in Words : s = Pad(w)
            ELSE s

(* ------------------------------ names -------------------------------- *)

Prefix == "SoftLayer_"
BaseNames == {"Account", "SERVICE"}
PrefixedNames == {Prefix \o b : b \in BaseNames}
ServiceNames == BaseNames \cup PrefixedNames
Methods == {"METHOD"}

\* str.startswith over the names of the model
StartsWith(name, prefix) ==
    \E rest \in BaseNames \cup {""} : name = prefix \o rest

\* Client.__getitem__: the name of the Service that client[name] returns
GetItem(name) == IF ~StartsWith(name, Prefix) THEN Prefix \o name ELSE name

(* ----------------------------- masks --------------------------------- *)

\* A mask is a dict or a string; a string mask is the sequence of its
\* tokens, e.g. "mask[a[b]]" is <<"mask","[","a","[","b","]","]">>.
DictMask == [kind |-> "dict", val |-> <<"object", "attribute">>]
StrMask(tokens) == [kind |-> "str", val |-> tokens]
IsDict(mask) == mask.kind = "dict"

\* The string masks of a path of properties, as a caller writes them:
\* "mask[a[b]]", "mask.a.b" and the unclosed "mask[a.b".
RECURSIVE BracketTail(_)
BracketTail(p) ==
    IF p = << >> THEN << >>
    ELSE <<"[", Head(p)>> \o BracketTail(Tail(p)) \o <<"]">>
RECURSIVE DotJoin(_)
DotJoin(p) ==
    IF Len(p) = 1 THEN p ELSE <<Head(p), ".">> \o DotJoin(Tail(p))
BracketMask(p) == StrMask(<<"mask">> \o BracketTail(p))
DottedMask(p) == StrMask(<<"mask", ".">> \o DotJoin(p))
UnclosedMask(p) == StrMask(<<"mask", "[">> \o DotJoin(p))

(* ----------------------- Client header methods ----------------------- *)

\* Client.add_header: the error it raises, and _headers after it
AddHeaderRaises(name) == Strip(name) = ""
AddHeader(h, name, value) ==
    IF AddHeaderRaises(name) THEN h ELSE Put(h, Strip(name), value)

\* Client.remove_header
RemoveHeader(h, name) ==
    IF Strip(name) \in DOMAIN h THEN Del(h, Strip(name)) ELSE h

\* Client.set_authentication
SetAuthentication(h, u, k) ==
    AddHeader(h, "authenticate", [username |-> Strip(u), apiKey |-> Strip(k)])

\* Client.set_init_parameter
SetInitParameter(h, svc, id) ==
    AddHeader(h, svc \o "InitParameters", [id |-> id])

\* Client.set_object_mask
SetObjectMask(h, svc, mask) ==
    LET header == IF IsDict(mask) THEN svc \o "ObjectMask"
                  ELSE "SoftLayer_ObjectMask"
    IN  AddHeader(h, header, [mask |-> mask])

\* Client.set_result_limit
SetResultLimit(h, limit, offset) ==
    AddHeader(h, "resultLimit", [limit |-> limit, offset |-> offset])

(* ------------------ the call handed to the transport ----------------- *)

\* Service.__call__, lines 335-340: the header set a call starts from. hdrs
\* is the caller's mapping when the headers option is given, else None.
StartHeaders(user, key, hdrs) ==
    IF hdrs = None
    THEN ("authenticate" :> [username |-> user, apiKey |-> key])
    ELSE Val(hdrs)

\* Service.__call__, lines 342-343: the id option
WithInitParameters(h, name, id) ==
    IF id # None
    THEN Put(h, name \o "InitParameters", [id |-> Val(id)])
    ELSE h

\* Service.__call__, lines 345-349: the mask option (first with the
\* isinstance test lost, to see that the properties notice)
WithMask_AlwaysScoped(h, name, mask) ==
    IF mask # None
    THEN Put(h, name \o "ObjectMask", [mask |-> Val(mask)])
    ELSE h

WithMask(h, name, mask) ==
    LET mheader == IF mask # None /\ IsDict(Val(mask))
                   THEN name \o "ObjectMask"
                   ELSE "SoftLayer_ObjectMask"
    IN  IF mask # None
        THEN Put(h, mheader, [mask |-> Val(mask)])
        ELSE h

\* Service.__call__, lines 352-356: the limit and offset options (first
\* with the offset lost, the header lost, and the two values swapped)
WithResultLimit_OffsetZero(h, limit, offset) ==
    IF limit # None /\ Val(limit) # 0
    THEN Put(h, "resultLimit", [limit |-> Val(limit), offset |-> 0])
    ELSE h

WithResultLimit_Dropped(h, limit, offset) == h

WithResultLimit_Swapped(h, limit, offset) ==
    IF limit # None /\ Val(limit) # 0
    THEN Put(h, "resultLimit", [limit |-> offset, offset |-> Val(limit)])
    ELSE h

WithResultLimit(h, limit, offset) ==
    IF limit # None /\ Val(limit) # 0
    THEN Put(h, "resultLimit", [limit |-> Val(limit), offset |-> offset])
    ELSE h

\* Service.__call__, lines 329-356: the header set built for a call to the
\* service `name`; id, mask, hdrs and limit are optional.
ServiceHeaders(name, user, key, id, mask, hdrs, limit, offset) ==
    WithResultLimit(
        WithMask(WithInitParameters(StartHeaders(user, key, hdrs), name, id),
                 name, mask),
        limit, offset)

\* Client.__call__, lines 287-292: the XML-RPC request the transport gets:
\* the service of the URI, the method, {'headers': headers} and the
\* positional arguments. hdrs is None when no headers keyword is passed.
ClientCall(service, method, args, hdrs) ==
    [service |-> service, method |-> method,
     headers |-> IF hdrs = None THEN EmptyDict ELSE Val(hdrs),
     args |-> args]

\* The call as the caller wrote it.
Request(path, service, method, args, id, mask, hdrs, limit, offset) ==
    [path |-> path, service |-> service, method |-> method, args |-> args,
     id |-> id, mask |-> mask, headers |-> hdrs, limit |-> limit,
     offset |-> offset]

\* client[name].method(*args, id=, mask=, headers=, limit=, offset=):
\* Client.__getitem__, Service.__getattr__, Service.__call__ and the
\* Client.__call__ it ends with. With use_headers the caller passes its own
\* mapping, which Service.__call__ then writes into.
ServiceCall(name, method, args, id, mask, use_headers, limit, offset) ==
    LET service == GetItem(name)
        hdrs == IF use_headers THEN Some(caller_headers) ELSE None
        built == ServiceHeaders(service, username, api_key, id, mask, hdrs,
                                limit, offset)
    IN  /\ req' = Some(Request("service", name, method, args, id, mask,
                               hdrs, limit, offset))
        /\ wire' = Some(ClientCall(service, method, args, Some(built)))
        /\ caller_headers' = IF use_headers THEN built ELSE caller_headers
        /\ raised' = None
        /\ UNCHANGED clientVars

\* client(service, method, *args, **kwargs): Client.__call__ called by the
\* program itself. Only the headers keyword is read.
DirectCall(service, method, args, id, mask, use_headers, limit, offset) ==
    LET hdrs == IF use_headers THEN Some(caller_headers) ELSE None
    IN  /\ req' = Some(Request("direct", service, method, args, id, mask,
                               hdrs, limit, offset))
        /\ wire' = Some(ClientCall(service, method, args, hdrs))
        /\ raised' = None
        /\ UNCHANGED <<clientVars, caller_headers>>

\* client.method(*args): Client.__getattr__ and its call_handler.
AttrCall(method, args) ==
    /\ req' = Some(Request("attr", service_name, method, args, None, None,
                           None, None, 0))
    /\ wire' = Some(ClientCall(service_name, method, args, Some(headers)))
    /\ raised' = None
    /\ UNCHANGED <<clientVars, caller_headers>>

(* ------------------------------ inputs ------------------------------- *)

Usernames == {"doesnotexist", Pad("doesnotexist")}
ApiKeys == {"issurelywrong"}
OtherUsernames == {"other", Pad("other")}
OtherApiKeys == {"otherkey"}
Ids == {1234}
ArgChoices == {<< >>, <<1234>>}
HeaderNames == {"authenticate", Pad("authenticate"), "X-Custom", ""}
HeaderValues == {[username |-> "other", apiKey |-> "otherkey"]}
CallerHeaderChoices ==
    {EmptyDict,
     ("authenticate" :> [username |-> "other", apiKey |-> "otherkey"])}
SimpleMasks == {DictMask, StrMask(<<"mask", "[", "a", "]">>)}
Limits == {0, 9}
Offsets == {10}

(* ----------------------- the remote method --------------------------- *)

\* What the remote method holds: data, the list 1..n it returns slices of, or
\* a single value when the method does not return a list.
Scalar == 0
DataOf(n) == [i \in 1..n |-> i]
NoServer == [data |-> << >>, list |-> TRUE]

Min(a, b) == IF a < b THEN a ELSE b

\* The response to a call: the resultLimit header selects `limit` elements
\* starting `offset` elements into the data.
Respond(srv, hdrs) ==
    IF ~srv.list THEN [list |-> FALSE, items |-> <<Scalar>>]
    ELSE IF "resultLimit" \in DOMAIN hdrs
    THEN [list |-> TRUE,
          items |-> SubSeq(srv.data, hdrs["resultLimit"].offset + 1,
                           Min(Len(srv.data),
                               hdrs["resultLimit"].offset
                                   + hdrs["resultLimit"].limit))]
    ELSE [list |-> TRUE, items |-> srv.data]

\* What the transport does with a request: it returns the decoded value,
\* raises the xmlrpclib.Fault the server answered with, or raises an error
\* of its own (socket.error, xmlrpclib.ProtocolError).
Reply(kind, body) == [kind |-> kind, body |-> body]
NoReply == Reply("", "")

\* Before any call: nothing sent, nothing returned.
NoOutcome == [sends |-> 0, reply |-> NoReply, result |-> None]

(* ------------------------------ iter_call ---------------------------- *)

\* The generator before iter_call is invoked.
IdleIter ==
    [pc |-> "idle", name |-> "", method |-> "", chunk |-> 0, limit |-> None,
     start |-> 0, offset |-> 0, count |-> 0, more |-> FALSE, buf |-> << >>,
     out |-> << >>, calls |-> << >>, pages |-> << >>]

\* (first without the argument check at the time of the call)
IterCallResult_Lazy(name, method, chunk, limit, offset) ==
    [pc |-> "active", name |-> name, method |-> method, chunk |-> chunk,
     limit |-> limit, start |-> offset, offset |-> offset, count |-> 0,
     more |-> TRUE, buf |-> << >>, out |-> << >>, calls |-> << >>,
     pages |-> << >>]

\* iter_call(service, method, chunk=, limit=, offset=): a chunk that is not
\* positive fails at once; otherwise the generator exists and has fetched
\* nothing yet.
IterCallResult(name, method, chunk, limit, offset) ==
    [IdleIter EXCEPT !.pc = IF chunk <= 0 THEN "failed" ELSE "active",
                     !.name = name, !.method = method, !.chunk = chunk,
                     !.limit = limit, !.start = offset, !.offset = offset,
                     !.more = chunk > 0]

LimitReached(it) == it.limit # None /\ it.count >= Val(it.limit)

\* the limit of the next underlying call
EffectiveChunk(it) ==
    IF it.limit # None THEN Min(it.chunk, Val(it.limit) - it.count)
    ELSE it.chunk

\* the generator after the response `page` to a call of limit `asked`
AfterPage(it, asked, hdrs, page) ==
    [it EXCEPT !.buf = page.items,
               !.offset = it.offset + (IF page.list THEN Len(page.items)
                                       ELSE 0),
               !.more = page.list /\ ~(Len(page.items) < asked),
               !.calls = Append(it.calls, hdrs),
               !.pages = Append(it.pages, page)]

(* --------------------------- construction ---------------------------- *)

\* Client.__init__, lines 114-129
Construct(service, id, user, key) ==
    LET h1 == SetAuthentication(EmptyDict, user, key)
    IN  /\ service_name = service
        /\ username = user
        /\ api_key = key
        /\ headers = IF id # None
                     THEN SetInitParameter(h1, service, Val(id))
                     ELSE h1

Init ==
    /\ \E service \in PrefixedNames, id \in {None} \cup {Some(i) : i \in Ids},
          user \in Usernames, key \in ApiKeys :
            Construct(service, id, user, key)
    /\ caller_headers = EmptyDict
    /\ req = None
    /\ wire = None
    /\ raised = None
    /\ server = NoServer
    /\ iter = IdleIter
    /\ outcome = NoOutcome
    /\ auth = None

(* ------------------ operations of the Client object ------------------ *)

add_header ==
    \E name \in HeaderNames, value \in HeaderValues :
        /\ headers' = AddHeader(headers, name, value)
        /\ raised' = IF AddHeaderRaises(name)
                     THEN Some("Please specify a header name.")
                     ELSE None
        /\ UNCHANGED <<service_name, username, api_key, caller_headers,
                       req, wire, iterVars, sessionVars>>

remove_header ==
    \E name \in HeaderNames :
        /\ headers' = RemoveHeader(headers, name)
        /\ raised' = None
        /\ UNCHANGED <<service_name, username, api_key, caller_headers,
                       req, wire, iterVars, sessionVars>>

set_authentication ==
    \E user \in OtherUsernames, key \in OtherApiKeys :
        /\ headers' = SetAuthentication(headers, user, key)
        /\ raised' = None
        /\ UNCHANGED <<service_name, username, api_key, caller_headers,
                       req, wire, iterVars, sessionVars>>

set_init_parameter ==
    \E id \in Ids :
        /\ headers' = SetInitParameter(headers, service_name, id)
        /\ raised' = None
        /\ UNCHANGED <<service_name, username, api_key, caller_headers,
                       req, wire, iterVars, sessionVars>>

set_object_mask ==
    \E mask \in SimpleMasks :
        /\ headers' = SetObjectMask(headers, service_name, mask)
        /\ raised' = None
        /\ UNCHANGED <<service_name, username, api_key, caller_headers,
                       req, wire, iterVars, sessionVars>>

set_result_limit ==
    \E limit \in Limits \ {0}, offset \in Offsets :
        /\ headers' = SetResultLimit(headers, limit, offset)
        /\ raised' = None
        /\ UNCHANGED <<service_name, username, api_key, caller_headers,
                       req, wire, iterVars, sessionVars>>

\* calls that pass no option
ServiceMethod ==
    \E name \in ServiceNames, method \in Methods, args \in ArgChoices :
        /\ ServiceCall(name, method, args, None, None, FALSE, None, 0)
        /\ UNCHANGED <<iterVars, sessionVars>>

ClientDirect ==
    \E service \in PrefixedNames, method \in Methods, args \in ArgChoices :
        /\ DirectCall(service, method, args, None, None, FALSE, None, 0)
        /\ UNCHANGED <<iterVars, sessionVars>>

ClientMethod ==
    \E method \in Methods, args \in ArgChoices :
        AttrCall(method, args) /\ UNCHANGED <<iterVars, sessionVars>>

Next ==
    \/ add_header
    \/ remove_header
    \/ set_authentication
    \/ set_init_parameter
    \/ set_object_mask
    \/ set_result_limit
    \/ ServiceMethod
    \/ ClientDirect
    \/ ClientMethod

Spec == Init /\ [][Next]_vars

(* ------------- calls with options, reusing one mapping --------------- *)

OptIds == {None} \cup {Some(i) : i \in Ids}
OptMasks == {None, Some(DictMask)}
\* limit= and offset= as a call passes them: offset defaults to 0
LimitOffsets ==
    {<<None, 0>>} \cup {<<Some(l), 0>> : l \in Limits}
        \cup {<<Some(l), o>> : l \in Limits \ {0}, o \in Offsets}
CallNames == {"SERVICE", Prefix \o "Account"}

InitCall ==
    /\ \E service \in PrefixedNames, key \in ApiKeys :
            Construct(service, None, "doesnotexist", key)
    /\ caller_headers \in CallerHeaderChoices
    /\ req = None
    /\ wire = None
    /\ raised = None
    /\ server = NoServer
    /\ iter = IdleIter
    /\ outcome = NoOutcome
    /\ auth = None

ServiceMethodOpts ==
    \E name \in CallNames, method \in Methods, id \in OptIds,
       mask \in OptMasks, use_headers \in BOOLEAN, lo \in LimitOffsets :
        /\ ServiceCall(name, method, << >>, id, mask, use_headers, lo[1],
                       lo[2])
        /\ UNCHANGED <<iterVars, sessionVars>>

ClientDirectOpts ==
    \E service \in PrefixedNames, method \in Methods, id \in OptIds,
       use_headers \in BOOLEAN :
        /\ DirectCall(service, method, << >>, id, None, use_headers, None, 0)
        /\ UNCHANGED <<iterVars, sessionVars>>

NextCall == ServiceMethodOpts \/ ClientDirectOpts

SpecCall == InitCall /\ [][NextCall]_vars

(* ----------------------- calls with string masks -------------------- *)

MaxMaskDepth == 2
Properties == {"a", "b"}
MaskPaths == UNION {[1..n -> Properties] : n \in 1..MaxMaskDepth}
StringMasks ==
    {BracketMask(p) : p \in MaskPaths} \cup {DottedMask(p) : p \in MaskPaths}
        \cup {UnclosedMask(p) : p \in MaskPaths}

ServiceMethodMask ==
    \E name \in ServiceNames, method \in Methods,
       mask \in StringMasks \cup {DictMask} :
        /\ ServiceCall(name, method, << >>, None, Some(mask), FALSE, None, 0)
        /\ UNCHANGED <<iterVars, sessionVars>>

NextMask == ServiceMethodMask

SpecMask == InitCall /\ [][NextMask]_vars

(* --------------------------- paginated calls ------------------------- *)

MaxData == 5
MaxChunk == 3
MaxLimit == 4
MaxOffset == 2

InitIter ==
    /\ \E service \in PrefixedNames, key \in ApiKeys :
            Construct(service, None, "doesnotexist", key)
    /\ caller_headers = EmptyDict
    /\ req = None
    /\ wire = None
    /\ raised = None
    /\ \E n \in 0..MaxData, list \in BOOLEAN :
            server = [data |-> DataOf(n), list |-> list]
    /\ iter = IdleIter
    /\ outcome = NoOutcome
    /\ auth = None

iter_call ==
    /\ iter.pc = "idle"
    /\ \E name \in CallNames, method \in Methods, chunk \in (-1)..MaxChunk,
          limit \in {None} \cup {Some(l) : l \in 1..MaxLimit},
          offset \in 0..MaxOffset :
            /\ iter' = IterCallResult(name, method, chunk, limit, offset)
            /\ raised' = IF chunk <= 0 THEN Some("InvalidArgumentError")
                          ELSE None
    /\ UNCHANGED <<clientVars, caller_headers, req, wire, server,
                   sessionVars>>

\* the consumer asks for an element and the page is used up: one more call
IterFetch ==
    /\ iter.pc = "active"
    /\ iter.buf = << >>
    /\ iter.more
    /\ ~LimitReached(iter)
    /\ ServiceCall(iter.name, iter.method, << >>, None, None, FALSE,
                   Some(EffectiveChunk(iter)), iter.offset)
    /\ iter' = AfterPage(iter, EffectiveChunk(iter), Val(wire').headers,
                         Respond(server, Val(wire').headers))
    /\ UNCHANGED <<server, sessionVars>>

\* the consumer is given the next element of the page
IterYield ==
    /\ iter.pc = "active"
    /\ iter.buf # << >>
    /\ ~LimitReached(iter)
    /\ iter' = [iter EXCEPT !.out = Append(iter.out, Head(iter.buf)),
                            !.count = iter.count + 1,
                            !.buf = Tail(iter.buf)]
    /\ UNCHANGED <<clientVars, callVars, server, sessionVars>>

\* the generator ends
IterStop ==
    /\ iter.pc = "active"
    /\ LimitReached(iter) \/ (iter.buf = << >> /\ ~iter.more)
    /\ iter' = [iter EXCEPT !.pc = "done"]
    /\ UNCHANGED <<clientVars, callVars, server, sessionVars>>

NextIter == iter_call \/ IterFetch \/ IterYield \/ IterStop

SpecIter == InitIter /\ [][NextIter]_vars

\* the consumer drains the generator, as list(client.iter_call(...)) does
SpecIterFair ==
    SpecIter /\ WF_vars(IterFetch) /\ WF_vars(IterYield) /\ WF_vars(IterStop)

(* ---------------- calls with a keyword nothing reads ---------------- *)

\* the keywords a call passes besides id, mask, headers, limit and offset
KeywordChoices == {{}, {"invalid_kwarg"}}

\* The call as the caller wrote it, with its other keywords.
RequestKw(path, service, method, args, id, kw) ==
    [path |-> path, service |-> service, method |-> method, args |-> args,
     id |-> id, mask |-> None, headers |-> None, limit |-> None,
     offset |-> 0, unknown |-> kw]

\* client[name].method(*args, id=, **kw): Service.__call__ takes **kwargs
\* and reads five of them with kwargs.get; no other keyword is looked at.
ServiceCallKw(name, method, args, id, kw) ==
    LET service == GetItem(name)
        built == ServiceHeaders(service, username, api_key, id, None, None,
                                None, 0)
    IN  /\ req' = Some(RequestKw("service", name, method, args, id, kw))
        /\ wire' = Some(ClientCall(service, method, args, Some(built)))
        /\ raised' = None
        /\ UNCHANGED <<clientVars, caller_headers>>

\* client(service, method, *args, **kw): Client.__call__ takes **kwargs and
\* reads headers with kwargs.get.
DirectCallKw(service, method, args, id, kw) ==
    /\ req' = Some(RequestKw("direct", service, method, args, id, kw))
    /\ wire' = Some(ClientCall(service, method, args, None))
    /\ raised' = None
    /\ UNCHANGED <<clientVars, caller_headers>>

\* client.method(*args, **kw): the call_handler of Client.__getattr__ is
\* declared with *args alone, so Python rejects any keyword before the
\* body runs.
AttrCallKw(method, args, kw) ==
    /\ req' = Some(RequestKw("attr", service_name, method, args, None, kw))
    /\ wire' = IF kw = {} THEN Some(ClientCall(service_name, method, args,
                                               Some(headers)))
               ELSE None
    /\ raised' = IF kw = {} THEN None ELSE Some("TypeError")
    /\ UNCHANGED <<clientVars, caller_headers>>

ServiceMethodKw ==
    \E name \in ServiceNames, method \in Methods, args \in ArgChoices,
       id \in OptIds, kw \in KeywordChoices :
        /\ ServiceCallKw(name, method, args, id, kw)
        /\ UNCHANGED <<iterVars, sessionVars>>

ClientDirectKw ==
    \E service \in PrefixedNames, method \in Methods, args \in ArgChoices,
       id \in OptIds, kw \in KeywordChoices :
        /\ DirectCallKw(service, method, args, id, kw)
        /\ UNCHANGED <<iterVars, sessionVars>>

ClientMethodKw ==
    \E method \in Methods, args \in ArgChoices, kw \in KeywordChoices :
        AttrCallKw(method, args, kw) /\ UNCHANGED <<iterVars, sessionVars>>

NextKw == ServiceMethodKw \/ ClientDirectKw \/ ClientMethodKw

SpecKw == Init /\ [][NextKw]_vars

(* ------------------- calls and what comes back ----------------------- *)

ReturnValues == {"RESULT"}
FaultStrings == {"Invalid API token.", Pad("faultString")}
TransportErrors == {"socket.error", "ProtocolError"}
Replies ==
    {Reply("return", v) : v \in ReturnValues}
        \cup {Reply("Fault", m) : m \in FaultStrings}
        \cup {Reply(e, "timed out") : e \in TransportErrors}

\* An exception: its class and the message it carries.
Exception(type, message) == [type |-> type, message |-> message]

\* (first with a fault answered by a second request)
Transact_RetryOnFault(reply) ==
    [sends |-> IF reply.kind = "Fault" THEN 2 ELSE 1,
     result |-> IF reply.kind = "return" THEN Some(reply.body) ELSE None,
     raised |-> IF reply.kind = "return" THEN None
                ELSE IF reply.kind = "Fault"
                THEN Some(Exception("SoftLayerError", reply.body))
                ELSE Some(Exception(reply.kind, reply.body))]

\* Client.__call__, lines 288-294: the one proxy call inside try. A value is
\* returned, an xmlrpclib.Fault is raised again as SoftLayerError of its
\* faultString, and nothing else is caught.
Transact(reply) ==
    [sends |-> 1,
     result |-> IF reply.kind = "return" THEN Some(reply.body) ELSE None,
     raised |-> IF reply.kind = "return" THEN None
                ELSE IF reply.kind = "Fault"
                THEN Some(Exception("SoftLayerError", reply.body))
                ELSE Some(Exception(reply.kind, reply.body))]

\* the state a call leaves behind when the transport answers with reply
Finish(reply) ==
    /\ outcome' = [sends |-> Transact(reply).sends, reply |-> reply,
                   result |-> Transact(reply).result]
    /\ raised' = Transact(reply).raised

\* client[name].method(*args, id=) with the transport answering
ServiceCallReply(name, method, args, id, reply) ==
    LET service == GetItem(name)
        built == ServiceHeaders(service, username, api_key, id, None, None,
                                None, 0)
    IN  /\ req' = Some(Request("service", name, method, args, id, None,
                               None, None, 0))
        /\ wire' = Some(ClientCall(service, method, args, Some(built)))
        /\ Finish(reply)
        /\ UNCHANGED <<clientVars, caller_headers>>

\* client(service, method, *args) with the transport answering
DirectCallReply(service, method, args, reply) ==
    /\ req' = Some(Request("direct", service, method, args, None, None,
                           None, None, 0))
    /\ wire' = Some(ClientCall(service, method, args, None))
    /\ Finish(reply)
    /\ UNCHANGED <<clientVars, caller_headers>>

\* client.method(*args) with the transport answering
AttrCallReply(method, args, reply) ==
    /\ req' = Some(Request("attr", service_name, method, args, None, None,
                           None, None, 0))
    /\ wire' = Some(ClientCall(service_name, method, args, Some(headers)))
    /\ Finish(reply)
    /\ UNCHANGED <<clientVars, caller_headers>>

ServiceMethodReply ==
    \E name \in ServiceNames, method \in Methods, args \in ArgChoices,
       id \in OptIds, reply \in Replies :
        /\ ServiceCallReply(name, method, args, id, reply)
        /\ UNCHANGED <<iterVars, auth>>

ClientDirectReply ==
    \E service \in PrefixedNames, method \in Methods, args \in ArgChoices,
       reply \in Replies :
        /\ DirectCallReply(service, method, args, reply)
        /\ UNCHANGED <<iterVars, auth>>

ClientMethodReply ==
    \E method \in Methods, args \in ArgChoices, reply \in Replies :
        AttrCallReply(method, args, reply) /\ UNCHANGED <<iterVars, auth>>

NextReply == ServiceMethodReply \/ ClientDirectReply \/ ClientMethodReply

SpecReply == Init /\ [][NextReply]_vars

(* ----------------------- logging in with a password ------------------ *)

LoginService == "User_Customer"
LoginMethod == "getPortalLoginToken"
LoginNames == {"USERNAME"}
Passwords == {"PASSWORD"}
\* what getPortalLoginToken returns
Tokens ==
    {[userId |-> 12345, hash |-> "TOKEN"], [userId |-> 67, hash |-> "T2"]}
\* and how the call fails otherwise
LoginFailures ==
    {Reply("Fault", "Invalid login."), Reply("socket.error", "timed out")}

\* the token credentials made of a response, and the authenticate header
\* body they render to
TokenOf(response) ==
    [user_id |-> response.userId, auth_token |-> response.hash]
Render(token) == [userId |-> token.user_id, authToken |-> token.auth_token]

\* The credentials in force: the token when there is one, and the
\* authenticate entry of the default headers.
Credentials == [auth |-> auth, headers |-> headers]

\* authenticate_with_password(username, password): one call of
\* User_Customer.getPortalLoginToken through the service proxy; when it
\* returns, the token of the response replaces the credentials and is
\* rendered into the default authenticate header.
PasswordLogin(user, password, reply) ==
    LET args == <<user, password, None, None>>
        service == GetItem(LoginService)
        built == ServiceHeaders(service, username, api_key, None, None,
                                None, None, 0)
        ok == Transact(reply).raised = None
    IN  /\ req' = Some([path |-> "service", service |-> LoginService,
                        method |-> LoginMethod, args |-> args,
                        id |-> None, mask |-> None, headers |-> None,
                        limit |-> None, offset |-> 0,
                        before |-> Credentials])
        /\ wire' = Some(ClientCall(service, LoginMethod, args,
                                   Some(built)))
        /\ Finish(reply)
        /\ auth' = IF ok THEN Some(TokenOf(reply.body)) ELSE auth
        /\ headers' = IF ok
                      THEN Put(headers, "authenticate",
                               Render(TokenOf(reply.body)))
                      ELSE headers
        /\ UNCHANGED <<service_name, username, api_key, caller_headers,
                       iterVars>>

authenticate_with_password ==
    \E user \in LoginNames, password \in Passwords :
        \/ \E t \in Tokens : PasswordLogin(user, password, Reply("return", t))
        \/ \E reply \in LoginFailures : PasswordLogin(user, password, reply)

\* a login, and the calls of Spec made before and after it
NextAuth ==
    \/ authenticate_with_password
    \/ ServiceMethod
    \/ ClientDirect
    \/ ClientMethod

SpecAuth == Init /\ [][NextAuth]_vars

(* ------------------------- checked properties ------------------------ *)

AuthOnly(user, key) == "authenticate" :> [username |-> user, apiKey |-> key]

NoOptions(r) ==
    /\ r.id = None /\ r.mask = None /\ r.headers = None /\ r.limit = None

\* The service a call is addressed to.
Target(r) == IF r.path = "service" THEN GetItem(r.service) ELSE r.service

Suffixes == {"InitParameters", "ObjectMask", "ObjectFilter"}
ServiceScoped(k) == \E svc \in PrefixedNames, suf \in Suffixes : k = svc \o suf

\* C1: a call with no options, made through client[S].M() or by calling the
\* client directly with (S, M), hands the transport a header set whose only
\* entry is authenticate = {username: u, apiKey: k} of the constructor.
C1_NoOptionCallSendsOnlyAuth ==
    (req # None /\ Val(req).path \in {"service", "direct"}
         /\ NoOptions(Val(req)))
    => (wire # None /\ Val(wire).headers = AuthOnly(username, api_key))

\* C6: every service-scoped header handed to the transport for a call to the
\* target service T has the key T followed by its suffix.
C6_ScopedKeysNameTarget ==
    req # None =>
        \A k \in DOMAIN Val(wire).headers :
            ServiceScoped(k) =>
                k \in {Target(Val(req)) \o suf : suf \in Suffixes}

\* C7: when a call supplies the headers option, the transport gets exactly the
\* supplied mapping, and the caller's mapping is as it was before the call.
C7_HeadersOptionVerbatim ==
    (req # None /\ Val(req).headers # None)
    => /\ Val(wire).headers = Val(Val(req).headers)
       /\ caller_headers = Val(Val(req).headers)

\* C8: after any sequence of header operations, every call made without a
\* headers override (service proxy, attribute-style, direct) hands the
\* transport a header set with an authenticate entry.
C8_AlwaysOneAuthenticate ==
    (req # None /\ Val(req).headers = None)
    => (wire # None /\ "authenticate" \in DOMAIN Val(wire).headers)

\* the brackets of a string mask nest properly
RECURSIVE Depth(_, _)
Depth(tokens, d) ==
    IF tokens = << >> THEN d
    ELSE IF d < 0 THEN d
    ELSE Depth(Tail(tokens), IF Head(tokens) = "[" THEN d + 1
                             ELSE IF Head(tokens) = "]" THEN d - 1
                             ELSE d)
Balanced(mask) == Depth(mask.val, 0) = 0

StringMaskCall ==
    /\ req # None
    /\ Val(req).mask # None
    /\ ~IsDict(Val(Val(req).mask))

C10_UnbalancedMaskRejected ==
    (StringMaskCall /\ ~Balanced(Val(Val(req).mask)))
    => (raised = Some("Malformed Mask") /\ wire = None)

\* the number of elements the first k pages returned, and the pages joined
RECURSIVE Returned(_, _)
Returned(pages, k) ==
    IF k = 0 THEN 0 ELSE Returned(pages, k - 1) + Len(pages[k].items)
RECURSIVE Joined(_, _)
Joined(pages, k) ==
    IF k = 0 THEN << >> ELSE Joined(pages, k - 1) \o pages[k].items

\* the limit the i-th underlying call is to carry
ExpectedLimit(i) ==
    IF iter.limit = None THEN iter.chunk
    ELSE Min(iter.chunk, Val(iter.limit) - Returned(iter.pages, i - 1))

\* the header set of the i-th underlying call carries this limit and offset
Carries(i, limit, offset) ==
    /\ "resultLimit" \in DOMAIN iter.calls[i]
    /\ iter.calls[i]["resultLimit"] = [limit |-> limit, offset |-> offset]

\* C2: the i-th underlying call of iter_call carries offset = start offset +
\* the number of elements the earlier pages returned, and limit = chunk, or
\* min(chunk, user limit - elements already yielded) when a limit is given.
C2_PageLimitAndOffset ==
    \A i \in 1..Len(iter.calls) :
        Carries(i, ExpectedLimit(i), iter.start + Returned(iter.pages, i - 1))

\* chunk=3, limit=4, offset=2 issues (limit=3, offset=2) then (limit=1,
\* offset=5): the test's chunk=25, limit=30, offset=12 scaled down.
C2_TwoPagesIssued ==
    /\ iter.chunk = 3 /\ iter.limit = Some(4) /\ iter.start = 2
    /\ Len(iter.calls) = 2
    /\ Carries(1, 3, 2)
    /\ Carries(2, 1, 5)

\* the elements of the data that iter_call is to yield: from the start offset
\* on, at most the user limit of them
ExpectedOut ==
    SubSeq(server.data, iter.start + 1,
           IF iter.limit = None THEN Len(server.data)
           ELSE Min(Len(server.data), iter.start + Val(iter.limit)))

\* C3: the elements yielded are the returned pages joined in page order and
\* in-page order, nothing dropped, repeated or reordered; at the end they are
\* the data from the offset on, cut at the user limit when one is given.
C3_YieldsPagesInOrder ==
    (server.list /\ iter.pc \in {"active", "done"}) =>
        /\ iter.out \o iter.buf = Joined(iter.pages, Len(iter.pages))
        /\ Len(iter.out) <= Len(ExpectedOut)
        /\ iter.out = SubSeq(ExpectedOut, 1, Len(iter.out))
        /\ iter.pc = "done" => (iter.buf = << >> /\ iter.out = ExpectedOut)

\* a finished iteration that crossed a page boundary and stopped at the limit
C3_TwoPagesYielded ==
    /\ server.list /\ iter.pc = "done"
    /\ Len(iter.pages) = 2
    /\ iter.limit = Some(4) /\ iter.start = 1
    /\ iter.out = <<2, 3, 4, 5>>

\* the i-th call was answered by a list as long as the limit the call carried
FullPage(i) ==
    /\ iter.pages[i].list
    /\ "resultLimit" \in DOMAIN iter.calls[i]
    /\ Len(iter.pages[i].items) = iter.calls[i]["resultLimit"].limit

\* the user limit is not reached by the elements of the first i pages
LimitOpen(i) ==
    iter.limit = None \/ Returned(iter.pages, i) < Val(iter.limit)

\* the number of calls that exhaust the data when no limit is given
CallsToExhaust ==
    IF iter.start >= Len(server.data) THEN 1
    ELSE (Len(server.data) - iter.start) \div iter.chunk + 1

\* C4, state by state: a further underlying call is issued if and only if
\* the previous response was a list as long as the chunk asked for and the
\* user limit is not reached: every call but the first follows such a
\* response, an ended iteration does not, unlimited data takes
\* (length \div chunk) + 1 calls, and a response that is no list is yielded
\* as one element and ends the iteration.
C4_CallsFollowFullPages ==
    /\ Len(iter.calls) = Len(iter.pages)
    /\ \A i \in 2..Len(iter.calls) : FullPage(i - 1) /\ LimitOpen(i - 1)
    /\ (iter.pc = "done") =>
           /\ Len(iter.calls) >= 1
           /\ ~(FullPage(Len(iter.calls)) /\ LimitOpen(Len(iter.calls)))
           /\ (server.list /\ iter.limit = None)
                  => Len(iter.calls) = CallsToExhaust
           /\ ~server.list => (Len(iter.calls) = 1 /\ iter.out = <<Scalar>>)
    /\ (iter.pc = "active" /\ iter.buf = << >> /\ Len(iter.calls) >= 1
            /\ FullPage(Len(iter.calls)) /\ LimitOpen(Len(iter.calls)))
           => ENABLED IterFetch

\* C4: in every state the calls follow full pages as above, and an iteration
\* that has started always ends.
C4_ContinuesIffFullPage ==
    /\ []C4_CallsFollowFullPages
    /\ (iter.pc = "active") ~> (iter.pc = "done")

\* data of length 2 * chunk with no limit: three calls, the last one empty
C4_ExtraEmptyPage ==
    /\ server.list /\ iter.pc = "done" /\ iter.limit = None
    /\ iter.start = 0 /\ iter.chunk = 2 /\ Len(server.data) = 4
    /\ Len(iter.calls) = 3
    /\ iter.pages[3].items = << >>

\* C5: iter_call with chunk <= 0 fails with an argument error when it is
\* invoked, before the generator exists, and issues no underlying call.
C5_BadChunkFailsAtCall ==
    (iter.pc # "idle" /\ iter.chunk <= 0) =>
        /\ iter.pc = "failed"
        /\ raised = Some("InvalidArgumentError")
        /\ iter.calls = << >>
        /\ wire = None

C5_ZeroChunkFailed ==
    /\ iter.pc = "failed"
    /\ iter.chunk = 0
    /\ iter.calls = << >>

\* C11: a call that passes a keyword outside id, mask, filter, headers, raw
\* headers, limit and offset fails with TypeError and the transport is
\* handed nothing.
C11_UnknownKeywordRejected ==
    (req # None /\ Val(req).unknown # {}) =>
        /\ raised = Some("TypeError")
        /\ wire = None

Faulted == outcome.reply.kind = "Fault"
TransportFailed == outcome.reply.kind \in TransportErrors

\* C12: a call hands the transport one request and no second one; a fault
\* with message m is raised as SoftLayerError carrying m unchanged, an
\* error of the transport is raised as it is, and a call returns a value
\* only when the transport returned that value.
C12_OneSendFailuresSurface ==
    req # None =>
        /\ outcome.sends = 1
        /\ wire # None
        /\ Faulted =>
            raised = Some(Exception("SoftLayerError", outcome.reply.body))
        /\ TransportFailed =>
            raised = Some(Exception(outcome.reply.kind, outcome.reply.body))
        /\ (Faulted \/ TransportFailed) => outcome.result = None
        /\ outcome.result # None =>
            /\ raised = None
            /\ outcome.reply = Reply("return", Val(outcome.result))

\* the server answered a proxy call with a fault whose text has blanks
C12_FaultRaised ==
    /\ req # None /\ Val(req).path = "service"
    /\ Faulted
    /\ outcome.reply.body = Pad("faultString")
    /\ raised = Some(Exception("SoftLayerError", Pad("faultString")))
    /\ outcome.sends = 1

IsLogin == req # None /\ Val(req).method = LoginMethod
LoggedIn == outcome.reply.kind = "return"

\* C13: authenticate_with_password makes one call of
\* User_Customer.getPortalLoginToken with (username, password, None, None);
\* the token of the response replaces the credentials exactly when the call
\* returns, and otherwise the credentials are the ones in force before; once
\* a token is in force every other call sends authenticate = {userId,
\* authToken} of that token.
C13_LoginReplacesCredentials ==
    /\ IsLogin =>
        /\ Val(req).service = LoginService
        /\ Len(Val(req).args) = 4
        /\ Val(req).args[1] \in LoginNames
        /\ Val(req).args[2] \in Passwords
        /\ Val(req).args[3] = None /\ Val(req).args[4] = None
        /\ outcome.sends = 1
        /\ LoggedIn => auth = Some(TokenOf(outcome.reply.body))
        /\ ~LoggedIn => Credentials = Val(req).before
    /\ (req # None /\ ~IsLogin /\ auth # None) =>
        /\ wire # None
        /\ "authenticate" \in DOMAIN Val(wire).headers
        /\ Val(wire).headers["authenticate"] = Render(Val(auth))

====
